---- MODULE Spec2Model ----
(***************************************************************************)
(* Digital PID level-control simulator (Código_Controlador.py).            *)
(*                                                                         *)
(* The script discretizes a first-order plant (ZOH), synthesizes a digital *)
(* PID, closes the unity-feedback loop, simulates the step and the ramp    *)
(* response and the control effort, and reports performance metrics, once  *)
(* per sample period of T_list.                                            *)
(*                                                                         *)
(* Numbers: the script computes in IEEE doubles.  The model computes in    *)
(* exact rationals <<n, d>> (d > 0, lowest terms); rounding is not         *)
(* modelled.  The plant's time constant tau enters only through            *)
(* exp(-T/tau); the model carries decay = exp(-1/tau) as a rational, so    *)
(* that exp(-T/tau) = decay^T is exact for the integer sample periods.     *)
(*                                                                         *)
(* Library calls (scipy.signal.cont2discrete, control.tf, control.feedback,*)
(* control.forced_response, numpy) are modelled by the algorithm the       *)
(* library runs at the call site.                                          *)
(***************************************************************************)
EXTENDS Integers, Sequences, FiniteSets, TLC

VARIABLES
    pc,             \* position in the script
    T_list,         \* sample periods to sweep                (line 46)
    idx,            \* 1-based position of T in T_list        (line 51)
    K,              \* plant static gain                      (line 20)
    decay,          \* exp(-1/tau) for the plant's tau        (line 21)
    Kp, Ki, Kd,     \* PID gains                              (lines 34-36)
    Gz,             \* discretized plant                      (line 70)
    b0, b1, b2,     \* PID numerator taps                     (lines 79-81)
    Cz,             \* discrete PID controller                (line 86)
    sys_cl,         \* closed loop                            (line 97)
    t,              \* time vector (t, t_degrau, t_rampa)     (lines 102, 114)
    ref_degrau, y_degrau, u_degrau,     \* step traces        (lines 103-111)
    ref_rampa, y_rampa, u_rampa,        \* ramp traces        (lines 118-126)
    erro_degrau, erro_rampa,            \* tracking errors    (lines 183, 197)
    settling_time,  \* None or a time                         (lines 212-218)
    overshoot,      \* percent                                (line 222)
    report_degrau,  \* what the step metrics block printed    (lines 224-233)
    report_rampa,   \* what the ramp metrics block printed    (lines 240-245)
    summary,        \* None or the number of graphs printed   (line 252)
    exc             \* the uncaught exception that ended the script, or "none"

config == <<T_list, K, decay, Kp, Ki, Kd>>
models == <<Gz, b0, b1, b2, Cz, sys_cl>>
degrau == <<ref_degrau, y_degrau, u_degrau>>
rampa  == <<ref_rampa, y_rampa, u_rampa>>
erros  == <<erro_degrau, erro_rampa>>
metricas == <<settling_time, overshoot, report_degrau, report_rampa>>
vars == <<pc, idx, config, models, t, degrau, rampa, erros, metricas, summary, exc>>

-----------------------------------------------------------------------------
(* Bounds of the model *)

\* the largest sample period swept
MaxT == 3
\* the longest T_list
MaxRuns == 2
\* the simulation horizon of the full script (the script's value is 20000)
Horizon == 6
\* the longest input of the simulator taken alone
MaxSamples == 4
\* the highest order of a model drawn for the simulator or the loop taken alone
MaxOrder == 2
\* how far past the scan window the metrics' traces go
MaxExtra == 2

-----------------------------------------------------------------------------
(* Exact rational arithmetic standing for Python's float arithmetic *)

Abs(x) == IF x < 0 THEN -x ELSE x

RECURSIVE GCD(_, _)
GCD(a, b) == IF b = 0 THEN a ELSE GCD(b, a % b)

Rat(n, d) ==
    LET g == GCD(Abs(n), Abs(d))
        s == IF d < 0 THEN -1 ELSE 1
    IN  <<(s * n) \div g, (s * d) \div g>>

Zero == <<0, 1>>
One == <<1, 1>>
Int2R(n) == <<n, 1>>

\* the sum over the least common denominator
RAdd(x, y) ==
    LET g == GCD(x[2], y[2])
    IN  Rat(x[1] * (y[2] \div g) + y[1] * (x[2] \div g), (x[2] \div g) * y[2])
RNeg(x) == <<-x[1], x[2]>>
RSub(x, y) == RAdd(x, RNeg(y))
\* the product, reduced crosswise before multiplying
RMul(x, y) ==
    LET g1 == GCD(Abs(x[1]), y[2])
        g2 == GCD(Abs(y[1]), x[2])
    IN  Rat((x[1] \div g1) * (y[1] \div g2), (x[2] \div g2) * (y[2] \div g1))
\* x / y for y # 0; Python raises ZeroDivisionError before dividing by zero
RDiv(x, y) == RMul(x, Rat(y[2], y[1]))
RLe(x, y) == RSub(x, y)[1] <= 0
RLt(x, y) == RSub(x, y)[1] < 0
RAbs(x) == <<Abs(x[1]), x[2]>>
RMax(x, y) == IF RLt(x, y) THEN y ELSE x

RECURSIVE RPow(_, _)
RPow(x, n) == IF n = 0 THEN One ELSE RMul(x, RPow(x, n - 1))

\* Python's None
None == <<>>

RECURSIVE SeqSum(_)
SeqSum(s) == IF s = <<>> THEN Zero ELSE RAdd(Head(s), SeqSum(Tail(s)))

\* np.max over a non-empty array
SeqMax(s) ==
    LET values == {s[i] : i \in 1..Len(s)}
    IN  CHOOSE m \in values : \A v \in values : RLe(v, m)

-----------------------------------------------------------------------------
(* Polynomials and transfer functions: coefficients, highest order first *)

Zeros(n) == [i \in 1..n |-> Zero]

\* the polynomial with n - Len(p) leading zeros added
PadLeft(p, n) == IF Len(p) >= n THEN p ELSE Zeros(n - Len(p)) \o p

RECURSIVE StripLeadingZeros(_)
StripLeadingZeros(p) ==
    IF Len(p) > 1 /\ p[1] = Zero THEN StripLeadingZeros(Tail(p)) ELSE p

\* polynomial product (convolution of the coefficient arrays)
PolyMul(p, q) ==
    [k \in 1..(Len(p) + Len(q) - 1) |->
        SeqSum([i \in 1..Len(p) |->
            IF k + 1 - i \in 1..Len(q) THEN RMul(p[i], q[k + 1 - i]) ELSE Zero])]

\* PolyAdd with the shorter array padded at the low-order end
PolyAdd_trailing_pad(p, q) ==
    LET n == IF Len(p) > Len(q) THEN Len(p) ELSE Len(q)
        pp == p \o Zeros(n - Len(p))
        qq == q \o Zeros(n - Len(q))
    IN  [k \in 1..n |-> RAdd(pp[k], qq[k])]

\* polynomial sum: the shorter array is padded with leading zeros
PolyAdd(p, q) ==
    LET n == IF Len(p) > Len(q) THEN Len(p) ELSE Len(q)
        pp == PadLeft(p, n)
        qq == PadLeft(q, n)
    IN  [k \in 1..n |-> RAdd(pp[k], qq[k])]

\* control.tf(num, den, dt)
tf(num, den, dt) == [num |-> num, den |-> den, dt |-> dt]

NoModel == tf(<<>>, <<>>, 0)

\* Cz * Gz: the series connection
Series(C, G) == tf(PolyMul(C.num, G.num), PolyMul(C.den, G.den), C.dt)

\* feedback with the sign of the loop reversed, L / (1 - L)
feedback_positive(L) ==
    tf(L.num, PolyAdd(L.den, [i \in 1..Len(L.num) |-> RNeg(L.num[i])]), L.dt)

\* control.feedback(L, 1): unity negative feedback, L / (1 + L)
feedback(L) == tf(L.num, PolyAdd(L.den, L.num), L.dt)

-----------------------------------------------------------------------------
(* Time-domain simulation *)

\* sum of x[i] * y[i]
Dot(x, y) == SeqSum([i \in 1..Len(x) |-> RMul(x[i], y[i])])

\* tf2ss with the numerator left undivided by the leading coefficient
tf2ss_unscaled_num(sys) ==
    LET n == Len(sys.den)
        a == [i \in 1..n |-> RDiv(sys.den[i], sys.den[1])]
        b == PadLeft(StripLeadingZeros(sys.num), n)
    IN  [order |-> n - 1,
         A1 |-> [i \in 1..(n - 1) |-> RNeg(a[i + 1])],
         C |-> [i \in 1..(n - 1) |-> RSub(b[i + 1], RMul(b[1], a[i + 1]))],
         D |-> b[1]]

\* The state-space realization forced_response simulates (controller canonical
\* form): both arrays are divided by the denominator's leading coefficient and
\* the numerator is aligned with the denominator by leading zeros.
tf2ss(sys) ==
    LET n == Len(sys.den)
        a == [i \in 1..n |-> RDiv(sys.den[i], sys.den[1])]
        bb == PadLeft(StripLeadingZeros(sys.num), n)
        b == [i \in 1..n |-> RDiv(bb[i], sys.den[1])]
    IN  [order |-> n - 1,
         A1 |-> [i \in 1..(n - 1) |-> RNeg(a[i + 1])],
         C |-> [i \in 1..(n - 1) |-> RSub(b[i + 1], RMul(b[1], a[i + 1]))],
         D |-> b[1]]

\* the state after one sample: x[k+1] = A x[k] + B u[k]
NextState(m, x, u) ==
    [i \in 1..m.order |-> IF i = 1 THEN RAdd(Dot(m.A1, x), u) ELSE x[i - 1]]

\* the output of one sample: y[k] = C x[k] + D u[k]
Output(m, x, u) == RAdd(Dot(m.C, x), RMul(m.D, u))

\* the outputs for the inputs U from state x on, earliest first: each sample's
\* output, then the state update, then the next sample (xn is bound through a
\* singleton set so that the state is computed once per sample)
RECURSIVE dlsim(_, _, _)
dlsim(m, x, U) ==
    IF U = <<>> THEN <<>>
    ELSE CHOOSE r \in {<<Output(m, x, Head(U))>> \o dlsim(m, xn, Tail(U)) :
                            xn \in {NextState(m, x, Head(U))}} : TRUE

\* control.forced_response(sys, T=t, U=U): the response from the zero state
forced_response(sys, U) == dlsim(tf2ss(sys), Zeros(Len(sys.den) - 1), U)

-----------------------------------------------------------------------------
(* The script's blocks *)

\* the loop variable T of "for T in T_list"
T == T_list[idx]

\* Bloco 6: signal.cont2discrete((num_cont, den_cont), T, method='zoh') of
\* K / (tau s + 1): numerator [[0, K (1 - a)]], denominator [1, -a] with
\* a = exp(-T / tau); Gz = tf(num_disc[0], den_disc, T)
cont2discrete(gain, dec, period) ==
    LET a == RPow(dec, period)
    IN  tf(<<Zero, RMul(gain, RSub(One, a))>>, <<One, RNeg(a)>>, period)

\* Bloco 7: the taps of the digital PID
PidB0(kp, ki, kd, period) ==
    RAdd(RAdd(kp, RDiv(RMul(ki, Int2R(period)), Int2R(2))), RDiv(kd, Int2R(period)))

\* b1 with the derivative term taken once instead of twice
PidB1_single_derivative(kp, ki, kd, period) ==
    RSub(RAdd(RNeg(kp), RDiv(RMul(ki, Int2R(period)), Int2R(2))),
         RDiv(kd, Int2R(period)))

PidB1(kp, ki, kd, period) ==
    RSub(RAdd(RNeg(kp), RDiv(RMul(ki, Int2R(period)), Int2R(2))),
         RDiv(RMul(Int2R(2), kd), Int2R(period)))

PidB2(kp, ki, kd, period) == RDiv(kd, Int2R(period))

\* the fixed denominator [1, -1, 0] of the controller
PidDen == <<One, RNeg(One), Zero>>

\* np.arange(0, t_sim, T) for T > 0
arange(stop, step) ==
    [i \in 1..((stop + step - 1) \div step) |-> Int2R((i - 1) * step)]

\* the slope of the ramp reference, 0.0001 m/s
RampSlope == <<1, 10000>>

\* a - b, element by element
SeqSub(a, b) == [i \in 1..Len(a) |-> RSub(a[i], b[i])]

ForLoop ==
    /\ pc = "for"
    /\ IF idx < Len(T_list)
       THEN idx' = idx + 1 /\ pc' = "discretize"
       ELSE idx' = idx /\ pc' = "summary"
    /\ UNCHANGED <<config, models, t, degrau, rampa, erros, metricas, summary, exc>>

Discretize ==
    /\ pc = "discretize"
    /\ Gz' = cont2discrete(K, decay, T)
    /\ pc' = "synthesize"
    /\ UNCHANGED <<idx, config, b0, b1, b2, Cz, sys_cl, t, degrau, rampa, erros,
                   metricas, summary, exc>>

\* Kd/T raises ZeroDivisionError for T = 0; nothing in the loop body catches it
Synthesize ==
    /\ pc = "synthesize"
    /\ IF T = 0
       THEN /\ exc' = "ZeroDivisionError"
            /\ pc' = "crashed"
            /\ UNCHANGED <<b0, b1, b2, Cz>>
       ELSE /\ b0' = PidB0(Kp, Ki, Kd, T)
            /\ b1' = PidB1(Kp, Ki, Kd, T)
            /\ b2' = PidB2(Kp, Ki, Kd, T)
            /\ Cz' = tf(<<b0', b1', b2'>>, PidDen, T)
            /\ pc' = "close"
            /\ exc' = exc
    /\ UNCHANGED <<idx, config, Gz, sys_cl, t, degrau, rampa, erros, metricas, summary>>

\* Bloco 8: sys_cl = feedback(Cz * Gz, 1)
CloseLoop ==
    /\ pc = "close"
    /\ sys_cl' = feedback(Series(Cz, Gz))
    /\ pc' = "degrau"
    /\ UNCHANGED <<idx, config, Gz, b0, b1, b2, Cz, t, degrau, rampa, erros,
                   metricas, summary, exc>>

\* Bloco 9: the unit step and the closed loop's response to it
StepResponse ==
    /\ pc = "degrau"
    /\ t' = arange(Horizon, T)
    /\ ref_degrau' = [i \in 1..Len(t') |-> One]
    /\ y_degrau' = forced_response(sys_cl, ref_degrau')
    /\ pc' = "u_degrau"
    /\ UNCHANGED <<idx, config, models, u_degrau, rampa, erros, metricas, summary, exc>>

\* the controller alone, driven by the tracking error
StepEffort ==
    /\ pc = "u_degrau"
    /\ u_degrau' = forced_response(Cz, SeqSub(ref_degrau, y_degrau))
    /\ pc' = "rampa"
    /\ UNCHANGED <<idx, config, models, t, ref_degrau, y_degrau, rampa, erros,
                   metricas, summary, exc>>

\* Bloco 10: the ramp and the closed loop's response to it
RampResponse ==
    /\ pc = "rampa"
    /\ t' = arange(Horizon, T)
    /\ ref_rampa' = [i \in 1..Len(t') |-> RMul(RampSlope, t'[i])]
    /\ y_rampa' = forced_response(sys_cl, ref_rampa')
    /\ pc' = "u_rampa"
    /\ UNCHANGED <<idx, config, models, degrau, u_rampa, erros, metricas, summary, exc>>

RampEffort ==
    /\ pc = "u_rampa"
    /\ u_rampa' = forced_response(Cz, SeqSub(ref_rampa, y_rampa))
    /\ pc' = "plots"
    /\ UNCHANGED <<idx, config, models, t, degrau, ref_rampa, y_rampa, erros,
                   metricas, summary, exc>>

\* Bloco 11: the figures; graphs 5 and 6 compute the tracking errors
Plots ==
    /\ pc = "plots"
    /\ erro_degrau' = SeqSub(ref_degrau, y_degrau)
    /\ erro_rampa' = SeqSub(ref_rampa, y_rampa)
    /\ pc' = "metricas_degrau"
    /\ UNCHANGED <<idx, config, models, t, degrau, rampa, metricas, summary, exc>>

-----------------------------------------------------------------------------
(* Bloco 12: performance metrics *)

\* "len(y_degrau) > 10": shorter traces are not scanned
MinScanLen == 10
\* "len(y_degrau)-100": the lookback of the backward scan
Window == 100
\* the 2% band around the step's final value 1
Tolerance == <<1, 50>>
\* graphs per sample period in the final summary
GraphsPerT == 6

\* abs(y - 1) <= 0.02
InBand(y) == RLe(RAbs(RSub(y, One)), Tolerance)

\* for i in range(start, stop, -1): the time of the first sample met that is
\* in the band, None when the range runs out (i, stop: Python's 0-based indices)
RECURSIVE ScanBack(_, _, _, _)
ScanBack(y, tt, i, stop) ==
    IF i <= stop THEN None
    ELSE IF InBand(y[i + 1]) THEN tt[i + 1]
    ELSE ScanBack(y, tt, i - 1, stop)

\* range(len(y)-1, max(0, len(y)-100), -1): the stop index is excluded
ScanStop(n) == IF n - Window > 0 THEN n - Window ELSE 0

SettlingTime(y, tt) ==
    IF Len(y) > MinScanLen THEN ScanBack(y, tt, Len(y) - 1, ScanStop(Len(y)))
    ELSE None

\* max(0, (np.max(y_degrau) - 1) * 100) if len(y_degrau) > 0 else 0
Overshoot(y) ==
    IF Len(y) > 0 THEN RMax(Zero, RMul(RSub(SeqMax(y), One), Int2R(100)))
    ELSE Zero

\* "if settling_time:" -- None and 0 are both falsy
Truthy(x) == x # None /\ x # Zero

\* the steady-state error without the abs
SteadyStateError_signed(y) == RSub(One, y[Len(y)])

\* abs(1 - y_degrau[-1])
SteadyStateError(y) == RAbs(RSub(One, y[Len(y)]))

\* np.max(np.abs(u))
MaxEffort(u) == SeqMax([i \in 1..Len(u) |-> RAbs(u[i])])

\* the step block's printed lines; settling is None when its line is skipped
StepReport(y, u, st, os) ==
    [status |-> "ok", exception |-> "none",
     final_value |-> y[Len(y)],
     steady_state_error |-> SteadyStateError(y),
     max_effort |-> MaxEffort(u),
     settling |-> IF Truthy(st) THEN st ELSE None,
     overshoot |-> os]

\* "except Exception as e": the block prints the exception and goes on
StepFailure(e) ==
    [status |-> "error", exception |-> e,
     final_value |-> None, steady_state_error |-> None, max_effort |-> None,
     settling |-> None, overshoot |-> None]

RampReport(erro, u) ==
    [status |-> "ok", exception |-> "none",
     final_error |-> erro[Len(erro)], max_effort |-> MaxEffort(u)]

RampFailure(e) ==
    [status |-> "error", exception |-> e, final_error |-> None, max_effort |-> None]

NoReport == [status |-> "none"]

\* y_degrau[-1] on an empty array raises IndexError, np.max on one ValueError
StepMetrics ==
    /\ pc = "metricas_degrau"
    /\ settling_time' = SettlingTime(y_degrau, t)
    /\ overshoot' = Overshoot(y_degrau)
    /\ report_degrau' =
           IF Len(y_degrau) = 0 THEN StepFailure("IndexError")
           ELSE IF Len(u_degrau) = 0 THEN StepFailure("ValueError")
           ELSE StepReport(y_degrau, u_degrau, settling_time', overshoot')
    /\ pc' = "metricas_rampa"
    /\ UNCHANGED <<idx, config, models, t, degrau, rampa, erros, report_rampa,
                   summary, exc>>

RampMetrics ==
    /\ pc = "metricas_rampa"
    /\ report_rampa' =
           IF Len(erro_rampa) = 0 THEN RampFailure("IndexError")
           ELSE IF Len(u_rampa) = 0 THEN RampFailure("ValueError")
           ELSE RampReport(erro_rampa, u_rampa)
    /\ pc' = "for"
    /\ UNCHANGED <<idx, config, models, t, degrau, rampa, erros, settling_time,
                   overshoot, report_degrau, summary, exc>>

\* Bloco 13: the final summary
Summary ==
    /\ pc = "summary"
    /\ summary' = Int2R(Len(T_list) * GraphsPerT)
    /\ pc' = "done"
    /\ UNCHANGED <<idx, config, models, t, degrau, rampa, erros, metricas, exc>>

-----------------------------------------------------------------------------
(* The whole script, over bounded configurations *)

\* sequences over S of length lo..hi
SeqsOf(S, lo, hi) == UNION {[1..n -> S] : n \in lo..hi}

Periods == 0..MaxT
ProportionalGains == {One, <<1, 2>>, RNeg(One)}
IntegralGains == {Zero, <<1, 2>>}
DerivativeGains == {Zero, One}
PlantGains == {One, Int2R(2)}
Decays == {<<1, 2>>}

Blank ==
    /\ pc = "for"
    /\ idx = 0
    /\ Gz = NoModel /\ Cz = NoModel /\ sys_cl = NoModel
    /\ b0 = None /\ b1 = None /\ b2 = None
    /\ t = <<>>
    /\ ref_degrau = <<>> /\ y_degrau = <<>> /\ u_degrau = <<>>
    /\ ref_rampa = <<>> /\ y_rampa = <<>> /\ u_rampa = <<>>
    /\ erro_degrau = <<>> /\ erro_rampa = <<>>
    /\ settling_time = None /\ overshoot = None
    /\ report_degrau = NoReport /\ report_rampa = NoReport
    /\ summary = None
    /\ exc = "none"

Init ==
    /\ T_list \in SeqsOf(Periods, 1, MaxRuns)
    /\ K \in PlantGains
    /\ decay \in Decays
    /\ Kp \in ProportionalGains /\ Ki \in IntegralGains /\ Kd \in DerivativeGains
    /\ Blank

Next ==
    \/ ForLoop
    \/ Discretize
    \/ Synthesize
    \/ CloseLoop
    \/ StepResponse
    \/ StepEffort
    \/ RampResponse
    \/ RampEffort
    \/ Plots
    \/ StepMetrics
    \/ RampMetrics
    \/ Summary

Spec == Init /\ [][Next]_vars

-----------------------------------------------------------------------------
(* The metrics block taken alone, over bounded step and ramp traces *)

\* trace lengths around the scan's two thresholds
TraceLens == (0..(MinScanLen + 2)) \cup ((Window - 1)..(Window + MaxExtra))

Low == <<1, 2>>
Inside == <<101, 100>>
High == <<3, 2>>

\* n samples: below the band before index c, inside it on c..d-1, above it
\* from d on (0-based indices)
Trace(n, c, d) ==
    [i \in 1..n |-> IF i - 1 < c THEN Low ELSE IF i - 1 < d THEN Inside ELSE High]

\* where the trace leaves the band again, for an entry at c
Exits(n, c) == {d \in {c, c + 1, n - 1, n} : c <= d /\ d <= n}

InitMetrics ==
    /\ T_list \in {<<1>>, <<MaxT>>}
    /\ K = One
    /\ decay \in Decays
    /\ Kp = One /\ Ki = Zero /\ Kd = Zero
    /\ pc = "plots"
    /\ idx = 1
    /\ Gz = NoModel /\ Cz = NoModel /\ sys_cl = NoModel
    /\ b0 = None /\ b1 = None /\ b2 = None
    /\ \E n \in TraceLens : \E c \in 0..n : \E d \in Exits(n, c) :
        /\ t = [i \in 1..n |-> Int2R((i - 1) * T_list[1])]
        /\ ref_degrau = [i \in 1..n |-> One]
        /\ y_degrau = Trace(n, c, d)
        /\ u_degrau = SeqSub(ref_degrau, y_degrau)
        /\ ref_rampa = [i \in 1..n |-> RMul(RampSlope, t[i])]
        /\ y_rampa = [i \in 1..n |->
               RSub(ref_rampa[i], RMul(<<1, 100>>, RSub(One, y_degrau[i])))]
        /\ u_rampa = SeqSub(ref_rampa, y_rampa)
    /\ erro_degrau = <<>> /\ erro_rampa = <<>>
    /\ settling_time = None /\ overshoot = None
    /\ report_degrau = NoReport /\ report_rampa = NoReport
    /\ summary = None
    /\ exc = "none"

NextMetrics ==
    \/ Plots
    \/ StepMetrics
    \/ RampMetrics
    \/ ForLoop
    \/ Summary

SpecMetrics == InitMetrics /\ [][NextMetrics]_vars

-----------------------------------------------------------------------------
(* The simulator taken alone, over bounded models and inputs *)

Coefs == {Zero, One}
TailCoefs == {Zero, RNeg(One)}
\* proper models of order n: any leading denominator coefficient but 0
LeadCoefs == {One, RNeg(One), Int2R(2)}

DensOf(n, leads) ==
    {<<a0>> \o r : a0 \in leads, r \in [1..n -> TailCoefs]}

ModelsOf(n, leads) ==
    {tf(num, den, 1) : num \in SeqsOf(Coefs, 1, n + 1), den \in DensOf(n, leads)}

InitSim ==
    /\ T_list = <<1>>
    /\ K = One
    /\ decay \in Decays
    /\ Kp = One /\ Ki = Zero /\ Kd = Zero
    /\ pc = "u_degrau"
    /\ idx = 1
    /\ Gz = NoModel
    /\ b0 = None /\ b1 = None /\ b2 = None
    /\ \E n \in 0..MaxOrder : Cz \in ModelsOf(n, LeadCoefs)
    /\ sys_cl = Cz
    /\ t = arange(MaxSamples, 1)
    /\ ref_degrau = [i \in 1..MaxSamples |-> One]
    /\ y_degrau \in [1..MaxSamples -> {Zero, One}]
    /\ u_degrau = <<>>
    /\ ref_rampa = <<>> /\ y_rampa = <<>> /\ u_rampa = <<>>
    /\ erro_degrau = <<>> /\ erro_rampa = <<>>
    /\ settling_time = None /\ overshoot = None
    /\ report_degrau = NoReport /\ report_rampa = NoReport
    /\ summary = None
    /\ exc = "none"

NextSim ==
    \/ StepEffort
    \/ RampResponse
    \/ RampEffort

SpecSim == InitSim /\ [][NextSim]_vars

-----------------------------------------------------------------------------
(* The loop taken alone: any proper controller, any strictly proper plant *)

MonicLeads == {One}

StrictlyProperOf(n, leads) ==
    {tf(num, den, 1) : num \in SeqsOf(Coefs, 1, n), den \in DensOf(n, leads)}

InitLoop ==
    /\ T_list = <<1>>
    /\ K = One
    /\ decay \in Decays
    /\ Kp = One /\ Ki = Zero /\ Kd = Zero
    /\ pc = "close"
    /\ idx = 1
    /\ \E n \in 0..MaxOrder : Cz \in ModelsOf(n, MonicLeads)
    /\ \E n \in 1..MaxOrder : Gz \in StrictlyProperOf(n, MonicLeads)
    /\ sys_cl = NoModel
    /\ b0 = None /\ b1 = None /\ b2 = None
    /\ t = <<>>
    /\ ref_degrau = <<>> /\ y_degrau = <<>> /\ u_degrau = <<>>
    /\ ref_rampa = <<>> /\ y_rampa = <<>> /\ u_rampa = <<>>
    /\ erro_degrau = <<>> /\ erro_rampa = <<>>
    /\ settling_time = None /\ overshoot = None
    /\ report_degrau = NoReport /\ report_rampa = NoReport
    /\ summary = None
    /\ exc = "none"

NextLoop == CloseLoop

SpecLoop == InitLoop /\ [][NextLoop]_vars

-----------------------------------------------------------------------------
(* Properties of the metrics block (SpecMetrics) *)

\* the first index (0-based) of "the last Window samples, or the whole trace"
WindowStart(n) == IF n > Window THEN n - Window ELSE 0

\* every sample of y from index k (0-based) to the end is in the band
SettledFrom(y, k) == \A i \in k..(Len(y) - 1) : InBand(y[i + 1])

StepReported == report_degrau.status # "none"
RampReported == report_rampa.status # "none"

\* C1: a reported settling time is the time of the earliest sample of the
\* scanned window (the last 100 samples, or the whole trace) from which the
\* output stays within 2% of the final value 1 through the end of the trace
\* (earliest: k opens the window, or the sample before k is outside the band).
C1_SettlingIsEarliestSettledSample ==
    (StepReported /\ report_degrau.status = "ok" /\ report_degrau.settling # None) =>
        \E k \in WindowStart(Len(y_degrau))..(Len(y_degrau) - 1) :
            /\ report_degrau.settling = t[k + 1]
            /\ SettledFrom(y_degrau, k)
            /\ k = WindowStart(Len(y_degrau)) \/ ~InBand(y_degrau[k])

\* C2: on a non-empty trace the step metrics never fail, and the settling time
\* is absent exactly when no sample of the scanned window (the last 100
\* samples, or the whole trace) is within the 2% band.
C2_AbsentIffWindowNeverInBand ==
    (StepReported /\ Len(y_degrau) > 0) =>
        /\ report_degrau.status = "ok"
        /\ (report_degrau.settling = None) <=>
               ~\E i \in WindowStart(Len(y_degrau))..(Len(y_degrau) - 1) :
                    InBand(y_degrau[i + 1])

\* C3: metrics on a zero-length trace end in the reported EmptyTraceError,
\* never in an index-out-of-range failure, for the step and for the ramp.
C3_EmptyTraceIsReportedAsSuch ==
    /\ (StepReported /\ Len(y_degrau) = 0) =>
           report_degrau.exception = "EmptyTraceError"
    /\ (RampReported /\ Len(erro_rampa) = 0) =>
           report_rampa.exception = "EmptyTraceError"

\* C8 as stated: for the step and for the ramp the reported error is the last
\* value of reference - output, with its sign.
C8_ReportedErrorIsSignedLastError ==
    /\ (StepReported /\ report_degrau.status = "ok") =>
           report_degrau.steady_state_error =
               RSub(ref_degrau[Len(ref_degrau)], y_degrau[Len(y_degrau)])
    /\ (RampReported /\ report_rampa.status = "ok") =>
           report_rampa.final_error =
               RSub(ref_rampa[Len(ref_rampa)], y_rampa[Len(y_rampa)])

\* x and y are the same number up to sign, and x is not negative
IsMagnitudeOf(x, y) == x[1] >= 0 /\ x[2] = y[2] /\ (x[1] = y[1] \/ x[1] = -y[1])

\* C8 as amended: the ramp's reported final error is the last value of
\* reference - output with its sign; the step's reported steady-state error
\* is the absolute value of the last value of reference - output.
C8_RampSignedStepMagnitude ==
    /\ (StepReported /\ report_degrau.status = "ok") =>
           IsMagnitudeOf(report_degrau.steady_state_error,
               RSub(ref_degrau[Len(ref_degrau)], y_degrau[Len(y_degrau)]))
    /\ (RampReported /\ report_rampa.status = "ok") =>
           report_rampa.final_error =
               RSub(ref_rampa[Len(ref_rampa)], y_rampa[Len(y_rampa)])

\* both reports are out and the step's final output is above the reference,
\* the ramp's below it
C8_Witness ==
    /\ report_degrau.status = "ok" /\ report_rampa.status = "ok"
    /\ RLt(One, y_degrau[Len(y_degrau)])
    /\ RLt(Zero, report_degrau.steady_state_error)
    /\ RLt(report_rampa.final_error, Zero)

-----------------------------------------------------------------------------
(* Properties of the whole script (Spec) *)

\* the positions at which the controller of the current T has been synthesized
AfterSynthesize ==
    {"close", "degrau", "u_degrau", "rampa", "u_rampa", "plots",
     "metricas_degrau", "metricas_rampa"}
\* the positions at which the step effort of the current T has been simulated
AfterStepEffort == {"rampa", "u_rampa", "plots", "metricas_degrau", "metricas_rampa"}
\* the positions at which the ramp effort of the current T has been simulated
AfterRampEffort == {"plots", "metricas_degrau", "metricas_rampa"}

\* C4: for T <= 0 discretization and synthesis fail with InvalidSampleError:
\* past the discretization of such a T the script has raised that error, and
\* no other failure (such as a division by zero) ever surfaces.
C4_NonPositivePeriodIsInvalidSampleError ==
    /\ (idx > 0 /\ T <= 0 /\ pc # "discretize") => exc = "InvalidSampleError"
    /\ exc \in {"none", "InvalidSampleError"}

\* C5: a failure in the run of one sample period is fatal to that run only:
\* when the script has ended, every sample period of the list has been taken
\* up and the final summary has been printed.
C5_FailedRunDoesNotEndTheSweep ==
    pc \in {"done", "crashed"} => (idx = Len(T_list) /\ summary # None)

\* n * x = y for an integer n and rationals x, y, in integers
ScaledEq(n, x, y) == n * x[1] * y[2] = y[1] * x[2]

\* the integer a * kp + b * ki + c * kd as a rational, over one denominator
Combo(a, kp, b, ki, c, kd) ==
    <<a * kp[1] * ki[2] * kd[2] + b * ki[1] * kp[2] * kd[2] + c * kd[1] * kp[2] * ki[2],
      kp[2] * ki[2] * kd[2]>>

\* C9: for T > 0 the controller is [b0, b1, b2] / [1, -1, 0] with
\* b0 = Kp + Ki*T/2 + Kd/T, b1 = -Kp + Ki*T/2 - 2*Kd/T, b2 = Kd/T (each stated
\* multiplied by 2T, in integers); for T=1, Kp=1, Ki=0, Kd=0 it is [1, -1, 0].
C9_PidTaps ==
    pc \in AfterSynthesize =>
        /\ T > 0
        /\ Cz.num = <<b0, b1, b2>>
        /\ Cz.den = <<<<1, 1>>, <<-1, 1>>, <<0, 1>>>>
        /\ ScaledEq(2 * T, b0, Combo(2 * T, Kp, T * T, Ki, 2, Kd))
        /\ ScaledEq(2 * T, b1, Combo(-2 * T, Kp, T * T, Ki, -4, Kd))
        /\ ScaledEq(2 * T, b2, Combo(0, Kp, 0, Ki, 2, Kd))
        /\ (T = 1 /\ Kp = <<1, 1>> /\ Ki = <<0, 1>> /\ Kd = <<0, 1>>) =>
               Cz.num = <<<<1, 1>>, <<-1, 1>>, <<0, 1>>>>

\* the test case T=1, Kp=1, Ki=0, Kd=0 has been synthesized
C9_Witness ==
    /\ pc = "close" /\ T = 1
    /\ Kp = <<1, 1>> /\ Ki = <<0, 1>> /\ Kd = <<0, 1>>
    /\ Cz.num = <<<<1, 1>>, <<-1, 1>>, <<0, 1>>>>

\* sample i (0-based) of a sequence, zero before the first sample
At(s, i) == IF i < 0 THEN Zero ELSE s[i + 1]

\* y is the response of (b, a) to u by the difference equation
\*   a0 y[n] = sum_k b_k u[n-k] - sum_{k>=1} a_k y[n-k]
\* with zero history; b is aligned with a by leading zeros
SolvesDifferenceEquation(sys, u, y) ==
    LET a == sys.den
        b == PadLeft(sys.num, Len(a))
    IN  /\ Len(y) = Len(u)
        /\ \A n \in 0..(Len(u) - 1) :
               RMul(a[1], At(y, n)) =
                   RSub(SeqSum([k \in 1..Len(b) |-> RMul(b[k], At(u, n - (k - 1)))]),
                        SeqSum([k \in 1..(Len(a) - 1) |-> RMul(a[k + 1], At(y, n - k))]))

\* C10: the effort trace is the signal that drives the plant in the loop:
\* u_degrau (u_rampa) is the controller's response to reference - output, and
\* the discretized plant alone, driven from rest by it, gives y_degrau
\* (y_rampa) at every sample.
C10_EffortDrivesPlantToOutput ==
    /\ pc \in AfterStepEffort =>
           /\ SolvesDifferenceEquation(Cz, SeqSub(ref_degrau, y_degrau), u_degrau)
           /\ SolvesDifferenceEquation(Gz, u_degrau, y_degrau)
    /\ pc \in AfterRampEffort =>
           /\ SolvesDifferenceEquation(Cz, SeqSub(ref_rampa, y_rampa), u_rampa)
           /\ SolvesDifferenceEquation(Gz, u_rampa, y_rampa)

\* a loop with integral and derivative action has run both efforts, and the
\* step output and effort are not identically zero
C10_Witness ==
    /\ pc = "plots"
    /\ Ki # Zero /\ Kd # Zero
    /\ \E i \in 1..Len(y_degrau) : y_degrau[i] # Zero
    /\ \E i \in 1..Len(u_rampa) : u_rampa[i] # Zero
    /\ Len(y_degrau) = Horizon

-----------------------------------------------------------------------------
(* Properties of the simulator (SpecSim) *)

\* the response to the first n inputs is the first n outputs
PrefixConsistent(sys, u, y) ==
    \A n \in 0..Len(u) : forced_response(sys, SubSeq(u, 1, n)) = SubSeq(y, 1, n)

\* C6: for every model (b, a) with a0 # 0 and every input u the simulated y
\* satisfies a0 y[n] = sum_k b_k u[n-k] - sum_{k>=1} a_k y[n-k] with zero
\* history, and y up to n depends on u up to n only.
C6_ResponseSolvesDifferenceEquation ==
    /\ pc # "u_degrau" =>
           /\ SolvesDifferenceEquation(Cz, SeqSub(ref_degrau, y_degrau), u_degrau)
           /\ PrefixConsistent(Cz, SeqSub(ref_degrau, y_degrau), u_degrau)
    /\ pc \in {"u_rampa", "plots"} =>
           /\ SolvesDifferenceEquation(sys_cl, ref_rampa, y_rampa)
           /\ PrefixConsistent(sys_cl, ref_rampa, y_rampa)
    /\ pc = "plots" =>
           /\ SolvesDifferenceEquation(Cz, SeqSub(ref_rampa, y_rampa), u_rampa)
           /\ PrefixConsistent(Cz, SeqSub(ref_rampa, y_rampa), u_rampa)

\* a second-order model with a0 = 2, feedback and feedthrough has been
\* simulated on an input that is neither zero nor constant
C6_Witness ==
    /\ pc = "plots"
    /\ Len(Cz.den) = 3 /\ Cz.den[1] = <<2, 1>> /\ Cz.den[2] # Zero
    /\ Len(Cz.num) = 3 /\ Cz.num[1] # Zero /\ Cz.num[3] # Zero
    /\ y_degrau[1] # y_degrau[2]
    /\ \E i \in 1..Len(u_degrau) : u_degrau[i] # Zero

-----------------------------------------------------------------------------
(* Properties of the loop composition (SpecLoop) *)

\* the value of polynomial p at z (Horner, highest order first)
RECURSIVE Horner(_, _, _)
Horner(p, z, acc) ==
    IF p = <<>> THEN acc ELSE Horner(Tail(p), z, RAdd(RMul(acc, z), Head(p)))

Eval(p, z) == Horner(p, z, Zero)

\* more points than the closed loop's degree: equal values, equal polynomials
EvalPoints == {Int2R(z) : z \in (-MaxOrder - 1)..(MaxOrder + 1)}

\* C7: the closed loop's numerator is num(C)*num(G) and its denominator is
\* den(C)*den(G) + num(C)*num(G) as polynomials (the sum aligned by leading
\* zeros), stated by their values at more points than their degree.
C7_ClosedLoopPolynomials ==
    pc = "degrau" =>
        /\ Len(sys_cl.num) <= Len(Cz.num) + Len(Gz.num) - 1
        /\ Len(sys_cl.den) <= Len(Cz.den) + Len(Gz.den) - 1
        /\ \A z \in EvalPoints :
               /\ Eval(sys_cl.num, z) = RMul(Eval(Cz.num, z), Eval(Gz.num, z))
               /\ Eval(sys_cl.den, z) =
                      RAdd(RMul(Eval(Cz.den, z), Eval(Gz.den, z)),
                           RMul(Eval(Cz.num, z), Eval(Gz.num, z)))

\* a second-order controller and plant with full numerators have been composed
C7_Witness ==
    /\ pc = "degrau"
    /\ Len(Cz.den) = 3 /\ Len(Cz.num) = 3 /\ Len(Gz.den) = 3 /\ Len(Gz.num) = 2
    /\ Cz.num[1] # Zero /\ Gz.num[1] # Zero /\ Cz.den[3] # Zero /\ Gz.den[3] # Zero
    /\ Len(sys_cl.den) = 5 /\ Len(sys_cl.num) = 4

====
